---- MODULE Spec2Model ----
(***************************************************************************)
(* fast_poisson: the lazy Poisson-disk sampling engine (src/src/iter.rs)   *)
(* and the Poisson configuration it is built from (src/src/lib.rs).        *)
(*                                                                         *)
(* Floats are fixed-point: a Float is an integer number of 1/Scale units,  *)
(* a Point<2> a pair of them.  Squared distances and radius.powi(2) are    *)
(* exact.  The random source R is an opaque type parameter of the crate:   *)
(* built from a seed it is a deterministic generator (a linear             *)
(* congruential one here), built from entropy its state is unknown and     *)
(* every draw is an arbitrary value of the draw's range.                   *)
(***************************************************************************)
EXTENDS Integers, Sequences, FiniteSets, Bags, TLC

\* ---------------------------------------------------------------- bounds
\* Fixed-point resolution: the Float 1.0 is Scale lattice units.
Scale == 2
\* num_samples ranges over 0..MaxSamples.
MaxSamples == 2
\* Explicit seeds range over 0..MaxSeed.
MaxSeed == 1
\* A caller holding the iterator pulls at most this many times after the
\* first end-of-sequence.
MaxNonePulls == 2

\* ------------------------------------------------------- values and types
Engines == {"a", "b"}

\* Option<u64>::None, Option<Point>::None and Some(x)
None == <<"None">>
Some(x) == <<"Some", x>>
IsSome(o) == o[1] = "Some"
Unwrap(o) == o[2]

\* The state of a generator seeded from entropy: not known to the program.
Entropy == -1
\* The generator's state space once seeded: 0..RngMod-1.
RngMod == 64

\* |p - q|^2, SquaredEuclidean of kiddo
Dist2(p, q) == (p[1] - q[1]) * (p[1] - q[1]) + (p[2] - q[2]) * (p[2] - q[2])

\* The radii of the configurations explored: 0.5 (rounded up to the lattice),
\* 1.5 and the 5.0 of tests/custom_rng.rs and the benches.
RadiusHalf == (Scale + 1) \div 2
RadiusMid == Scale + RadiusHalf
RadiusFive == 5 * Scale
Radii == {RadiusHalf, RadiusMid, RadiusFive}

\* ------------------------------------------------------------ lib.rs
\* The default validate closure: every coordinate in [0.0, 1.0).
DefaultValidate(p, u) == \A n \in 1..2 : p[n] >= 0 /\ p[n] < Scale

\* A caller's validate function handed to with_validate: an axis-aligned box
\* whose width is the user data (width 0 rejects every point).
BoxValidate(p, u) == \A n \in 1..2 : p[n] >= 0 /\ p[n] < u

\* Calling the fn pointer stored in Poisson::validate
ApplyValidate(f, p, u) ==
    IF f = "default" THEN DefaultValidate(p, u) ELSE BoxValidate(p, u)

set_validate(p, func, user_data) ==
    [p EXCEPT !.validate = func, !.validate_user_data = user_data]
set_radius(p, radius) == [p EXCEPT !.radius = radius]
set_seed(p, seed) == [p EXCEPT !.seed = Some(seed)]
set_samples(p, samples) == [p EXCEPT !.num_samples = samples]

\* The width of a box whose diagonal is shorter than RadiusMid.
BoxWidth == ((7 * RadiusMid) \div 10) + 1

\* (validate, user data, radius) of the configurations explored.
Scenarios ==
    { <<"default", 0, RadiusHalf>>, <<"default", 0, RadiusFive>>,
      <<"box", BoxWidth, RadiusMid>>, <<"box", 0, RadiusHalf>> }

\* Poisson::default() as far as the lattice can hold it: no seed, the default
\* validate closure and user data; radius and num_samples are always set by
\* the builder chain below.
PoissonDefault ==
    [validate |-> "default", validate_user_data |-> 0, radius |-> RadiusHalf,
     seed |-> None, num_samples |-> MaxSamples]

\* Every Poisson a builder chain new().with_validate(..).with_radius(..)
\* .with_samples(..)[.with_seed(..)] yields within the bounds.
Unseeded ==
    { set_samples(set_radius(set_validate(PoissonDefault, s[1], s[2]), s[3]), n) :
        s \in Scenarios, n \in 0..MaxSamples }
Seeded == { set_seed(p, sd) : p \in Unseeded, sd \in 0..MaxSeed }
Configs == Unseeded \cup Seeded

\* impl Clone for Poisson: field by field.
Clone(p) ==
    [validate |-> p.validate, validate_user_data |-> p.validate_user_data,
     radius |-> p.radius, seed |-> p.seed, num_samples |-> p.num_samples]

\* An eq as #[derive(PartialEq)] would write it for the three fields.
PartialEqDerived(self, rhs) ==
    /\ self.radius = rhs.radius
    /\ self.seed = rhs.seed
    /\ self.num_samples = rhs.num_samples

\* impl PartialEq for Poisson: eq(&self, other)
PartialEq(self, rhs) ==
    /\ IsSome(self.seed)
    /\ IsSome(rhs.seed)
    /\ self.radius = rhs.radius
    /\ self.seed = rhs.seed
    /\ self.num_samples = rhs.num_samples

\* ------------------------------------------------------- the random source
\* One step of the seeded generator.
RngStep(s) == (45 * s + 13) % RngMod
\* R::seed_from_u64(seed) / R::from_entropy()
SeedRng(seed) == IF IsSome(seed) THEN (Unwrap(seed) + 1) % RngMod ELSE Entropy

\* The next n values of a seeded generator in state s (each is the numerator
\* of a fraction of RngMod), and the generator's state after n draws.
RECURSIVE RngValues(_, _)
RngValues(s, n) == IF n = 0 THEN <<>> ELSE <<s>> \o RngValues(RngStep(s), n - 1)
RECURSIVE RngAfter(_, _)
RngAfter(s, n) ==
    IF s = Entropy \/ n = 0 THEN s ELSE RngAfter(RngStep(s), n - 1)

\* An index drawn from a source other than the engine's own generator.
GenRangeForeign(s, n) == { <<k, RngAfter(s, 1)>> : k \in 0..(n - 1) }

\* rng.gen_range(0..n): <<index, state'>>
GenRange(s, n) ==
    IF s = Entropy THEN { <<k, Entropy>> : k \in 0..(n - 1) }
    ELSE { <<(s * n) \div RngMod, RngStep(s)>> }

\* ------------------------------------------------------------ iter.rs
\* (0.5 - rng.gen::<Float>()) * radius lies in (-radius/2, radius/2]: the
\* lattice values of that range, highest first (u = 0 gives radius/2).
FirstCoords(radius) == [k \in 1..radius |-> (radius \div 2) - (k - 1)]

\* first_point of Iter::new: <<point, state'>>, one draw per coordinate.
FirstPoints(radius, s) ==
    IF s = Entropy
    THEN { << <<FirstCoords(radius)[k1], FirstCoords(radius)[k2]>>, Entropy >> :
             k1 \in 1..radius, k2 \in 1..radius }
    ELSE LET v == RngValues(s, 2)
         IN  { << <<FirstCoords(radius)[((v[1] * radius) \div RngMod) + 1],
                    FirstCoords(radius)[((v[2] * radius) \div RngMod) + 1]>>,
                  RngAfter(s, 2) >> }

\* The translations generate_random_point can apply: vectors of length dist
\* with radius <= dist < 2 * radius (dist = radius * (1 + u), u in [0, 1)).
InAnnulus(radius, d) ==
    /\ d[1] * d[1] + d[2] * d[2] >= radius * radius
    /\ d[1] * d[1] + d[2] * d[2] < 4 * radius * radius
AnnulusSeq(radius) ==
    LET m == 2 * radius
        side == 2 * m + 1
        cell(k) == <<((k - 1) \div side) - m, ((k - 1) % side) - m>>
        Test(d) == InAnnulus(radius, d)
    IN  SelectSeq([k \in 1..(side * side) |-> cell(k)], Test)
AnnulusOf == [radius \in Radii |-> AnnulusSeq(radius)]

\* generate_random_point: the points it may return, all at a distance in
\* [radius, 2 * radius) of `around`.  Seeded, the three draws (the distance
\* and the two normal samples) pick the translation; the generator is left in
\* state RngAfter(s, 3).
generate_random_point(radius, around, s) ==
    LET ann == AnnulusOf[radius]
        at(j) == <<around[1] + ann[j][1], around[2] + ann[j][2]>>
    IN  IF s = Entropy
        THEN { at(j) : j \in 1..Len(ann) }
        ELSE LET v == RngValues(s, 3)
             IN  { at(((((v[1] * RngMod + v[2]) * RngMod + v[3]) * Len(ann))
                          \div (RngMod * RngMod * RngMod)) + 1) }

\* in_space that lets every point through.
in_spaceAlways(dist, point) == TRUE

\* in_space: the configured predicate called with the configured user data.
in_space(dist, point) ==
    ApplyValidate(dist.validate, point, dist.validate_user_data)

\* KdTree::within(point, dist): the points of the tree at squared distance
\* below dist; whether a point at exactly dist counts is the library's choice.
Within(tree, point, dist, inclusive) ==
    { q \in BagToSet(tree) :
        IF inclusive THEN Dist2(q, point) <= dist ELSE Dist2(q, point) < dist }

\* in_neighborhood that queries with radius where radius.powi(2) is due,
\* halved.
in_neighborhoodHalved(dist, tree, point, inclusive) ==
    Within(tree, point, (dist.radius * dist.radius) \div 2, FALSE) # {}

\* in_neighborhood: some sampled point within radius of the point.
in_neighborhood(dist, tree, point, inclusive) ==
    Within(tree, point, dist.radius * dist.radius, inclusive) # {}

\* A removal that leaves the vector as it was.
swap_removeKeep(v, i) == v

\* A removal that copies the last element over i and forgets to pop it.
swap_removeCopy(v, i) == [v EXCEPT ![i + 1] = v[Len(v)]]

\* Vec::swap_remove(i), i counted from 0: the last element takes i's place.
swap_remove(v, i) ==
    LET n == Len(v)
    IN  IF i = n - 1 THEN SubSeq(v, 1, n - 1)
        ELSE [SubSeq(v, 1, n - 1) EXCEPT ![i + 1] = v[n]]

\* ------------------------------------------------------------------ state
VARIABLES
    poisson,           \* the Poisson the caller holds; engine "a" is built from it
    other,             \* a second Poisson of the caller; engine "b" is built from it
    equal,             \* the last comparison made: Some(<<lhs, rhs, lhs == rhs>>)
    within_inclusive,  \* the spatial index library counts distance = radius as within
    pc,                \* per engine: "none", "idle", "while", "for", "done"
    op,                \* per engine: the caller ("iter", "generate", "generate_kd_tree")
    distribution,      \* Iter::distribution
    rng,               \* Iter::rng
    sampled,           \* Iter::sampled, a bag of points
    active,            \* Iter::active
    i,                 \* next(): the index chosen in the active list
    attempt,           \* next(): candidates generated in the current for loop
    pull_len,          \* history: active.len() when the last next() was called
    candidates,        \* history: generate_random_point calls of that next()
    first_point,       \* history: the first_point of Iter::new
    seed_index,        \* history: where first_point sits in active, -1 once removed
    results,           \* history: what each finished next() returned
    points,            \* the Vec generate() returned
    kd_tree            \* the KdTree generate_kd_tree() returned

vars == <<poisson, other, equal, within_inclusive, pc, op, distribution, rng,
          sampled, active, i, attempt, pull_len, candidates, first_point,
          seed_index, results, points, kd_tree>>

Ops == {"iter", "generate", "generate_kd_tree"}

\* The points next() has returned, in order.
RECURSIVE SomeOf(_)
SomeOf(rs) ==
    IF rs = <<>> THEN <<>>
    ELSE IF IsSome(Head(rs)) THEN <<Unwrap(Head(rs))>> \o SomeOf(Tail(rs))
    ELSE SomeOf(Tail(rs))
Emitted(e) == SomeOf(results[e])
NoneCount(e) == Len(results[e]) - Len(Emitted(e))

\* Nothing compared, no engine built yet.
InitEngines ==
    /\ equal = None
    /\ pull_len = [e \in Engines |-> 0]
    /\ candidates = [e \in Engines |-> 0]
    /\ pc = [e \in Engines |-> "none"]
    /\ op = [e \in Engines |-> "iter"]
    /\ distribution = [e \in Engines |-> PoissonDefault]
    /\ rng = [e \in Engines |-> Entropy]
    /\ sampled = [e \in Engines |-> EmptyBag]
    /\ active = [e \in Engines |-> <<>>]
    /\ i = [e \in Engines |-> 0]
    /\ attempt = [e \in Engines |-> 0]
    /\ first_point = [e \in Engines |-> <<0, 0>>]
    /\ seed_index = [e \in Engines |-> -1]
    /\ results = [e \in Engines |-> <<>>]
    /\ points = [e \in Engines |-> <<>>]
    /\ kd_tree = [e \in Engines |-> EmptyBag]

\* The caller holds one Poisson (other is the same value).
Init ==
    /\ poisson \in Configs
    /\ other = poisson
    /\ within_inclusive \in BOOLEAN
    /\ InitEngines

\* An Iter::new that also stashes first_point in sampled.
NewSampledWithFirst(first) == SetToBag({first})

\* Iter::new: sampled: KdTree::new(), active: vec![first_point]
NewSampled(first) == EmptyBag
NewActive(first) == <<first>>

\* The Poisson engine e is built from.
Source(e) == IF e = "a" THEN poisson ELSE other

\* Poisson::iter / generate / generate_kd_tree: Iter::new(self.clone())
IterNew(e, o) ==
    /\ pc[e] = "none"
    /\ LET dist == Clone(Source(e))
       IN  \E f \in FirstPoints(dist.radius, SeedRng(dist.seed)) :
             /\ distribution' = [distribution EXCEPT ![e] = dist]
             /\ rng' = [rng EXCEPT ![e] = f[2]]
             /\ sampled' = [sampled EXCEPT ![e] = NewSampled(f[1])]
             /\ active' = [active EXCEPT ![e] = NewActive(f[1])]
             /\ first_point' = [first_point EXCEPT ![e] = f[1]]
    /\ seed_index' = [seed_index EXCEPT ![e] = 0]
    /\ op' = [op EXCEPT ![e] = o]
    /\ pc' = [pc EXCEPT ![e] = "idle"]
    /\ UNCHANGED <<poisson, other, equal, within_inclusive, i, attempt, results, points, kd_tree>>

\* collect() of generate(): the loop ends when next() has returned None
collect_done(e) == NoneCount(e) > 0
\* A to_empty() that calls next() once instead of looping.
to_empty_once(e) == Len(results[e]) > 0

\* to_empty(): while self.next().is_some() {}
to_empty_done(e) == NoneCount(e) > 0

\* The caller pulls: the iterator's holder, collect() or to_empty() calls
\* next().
CallNext(e) ==
    /\ pc[e] = "idle"
    /\ CASE op[e] = "iter" -> NoneCount(e) <= MaxNonePulls
         [] op[e] = "generate" -> ~collect_done(e)
         [] op[e] = "generate_kd_tree" -> ~to_empty_done(e)
    /\ pc' = [pc EXCEPT ![e] = "while"]
    /\ UNCHANGED <<poisson, other, equal, within_inclusive, op, distribution, rng, sampled, active,
                   i, attempt, first_point, seed_index, results, points, kd_tree>>

\* A next() that, finding the active list empty, puts first_point back
\* before it returns None.
WhileExitRestart(e) ==
    /\ pc[e] = "while"
    /\ active[e] = <<>>
    /\ active' = [active EXCEPT ![e] = <<first_point[e]>>]
    /\ results' = [results EXCEPT ![e] = Append(@, None)]
    /\ pc' = [pc EXCEPT ![e] = "idle"]
    /\ UNCHANGED <<poisson, other, equal, within_inclusive, op, distribution, rng, sampled,
                   i, attempt, first_point, seed_index, points, kd_tree>>

\* next(): while !self.active.is_empty() fails: return None
WhileExit(e) ==
    /\ pc[e] = "while"
    /\ active[e] = <<>>
    /\ results' = [results EXCEPT ![e] = Append(@, None)]
    /\ pc' = [pc EXCEPT ![e] = "idle"]
    /\ UNCHANGED <<poisson, other, equal, within_inclusive, op, distribution, rng, sampled, active,
                   i, attempt, first_point, seed_index, points, kd_tree>>

\* next(): let i = self.rng.gen_range(0..self.active.len())
WhileSelect(e) ==
    /\ pc[e] = "while"
    /\ active[e] # <<>>
    /\ \E g \in GenRange(rng[e], Len(active[e])) :
         /\ i' = [i EXCEPT ![e] = g[1]]
         /\ rng' = [rng EXCEPT ![e] = g[2]]
    /\ attempt' = [attempt EXCEPT ![e] = 0]
    /\ pc' = [pc EXCEPT ![e] = "for"]
    /\ UNCHANGED <<poisson, other, equal, within_inclusive, op, distribution, sampled, active,
                   first_point, seed_index, results, points, kd_tree>>

\* An add_point that forgets the spatial index.
add_pointNoIndex(e, point) ==
    /\ active' = [active EXCEPT ![e] = Append(@, point)]
    /\ sampled' = sampled

\* An add_point that forgets the active list.
add_pointNoActive(e, point) ==
    /\ active' = active
    /\ sampled' = [sampled EXCEPT ![e] = @ (+) SetToBag({point})]

\* Iter::add_point
add_point(e, point) ==
    /\ active' = [active EXCEPT ![e] = Append(@, point)]
    /\ sampled' = [sampled EXCEPT ![e] = @ (+) SetToBag({point})]

\* The test of next(): in_space(point) && !in_neighborhood(point)
Accepts(e, point) ==
    /\ in_space(distribution[e], point)
    /\ ~in_neighborhood(distribution[e], sampled[e], point, within_inclusive)

\* A for loop over 0..=num_samples: one round too many.
ForAcceptInclusive(e) ==
    /\ pc[e] = "for"
    /\ attempt[e] <= distribution[e].num_samples
    /\ \E point \in generate_random_point(distribution[e].radius, active[e][i[e] + 1], rng[e]) :
         /\ Accepts(e, point)
         /\ add_point(e, point)
         /\ results' = [results EXCEPT ![e] = Append(@, Some(point))]
    /\ rng' = [rng EXCEPT ![e] = RngAfter(@, 3)]
    /\ pc' = [pc EXCEPT ![e] = "idle"]
    /\ UNCHANGED <<poisson, other, equal, within_inclusive, op, distribution, i, attempt,
                   first_point, seed_index, points, kd_tree>>

\* next(): one round of the for loop that finds a good point: add_point,
\* return Some(point)
ForAccept(e) ==
    /\ pc[e] = "for"
    /\ attempt[e] < distribution[e].num_samples
    /\ \E point \in generate_random_point(distribution[e].radius, active[e][i[e] + 1], rng[e]) :
         /\ Accepts(e, point)
         /\ add_point(e, point)
         /\ results' = [results EXCEPT ![e] = Append(@, Some(point))]
    /\ rng' = [rng EXCEPT ![e] = RngAfter(@, 3)]
    /\ pc' = [pc EXCEPT ![e] = "idle"]
    /\ UNCHANGED <<poisson, other, equal, within_inclusive, op, distribution, i, attempt,
                   first_point, seed_index, points, kd_tree>>

\* next(): one round of the for loop whose point is rejected
ForReject(e) ==
    /\ pc[e] = "for"
    /\ attempt[e] < distribution[e].num_samples
    /\ ~(\A point \in generate_random_point(distribution[e].radius, active[e][i[e] + 1], rng[e]) :
           Accepts(e, point))
    /\ rng' = [rng EXCEPT ![e] = RngAfter(@, 3)]
    /\ attempt' = [attempt EXCEPT ![e] = @ + 1]
    /\ UNCHANGED <<poisson, other, equal, within_inclusive, pc, op, distribution, sampled, active,
                   i, first_point, seed_index, results, points, kd_tree>>

\* A for loop over 1..num_samples: it gives up one candidate early.
ForEndEarly(e) ==
    /\ pc[e] = "for"
    /\ attempt[e] + 1 >= distribution[e].num_samples
    /\ active' = [active EXCEPT ![e] = swap_remove(@, i[e])]
    /\ seed_index' = [seed_index EXCEPT ![e] =
                        IF @ = i[e] THEN -1
                        ELSE IF @ = Len(active[e]) - 1 THEN i[e] ELSE @]
    /\ pc' = [pc EXCEPT ![e] = "while"]
    /\ UNCHANGED <<poisson, other, equal, within_inclusive, op, distribution, rng, sampled,
                   i, attempt, first_point, results, points, kd_tree>>

\* next(): the for loop ran out: self.active.swap_remove(i), back to the while
ForEnd(e) ==
    /\ pc[e] = "for"
    /\ attempt[e] >= distribution[e].num_samples
    /\ active' = [active EXCEPT ![e] = swap_remove(@, i[e])]
    /\ seed_index' = [seed_index EXCEPT ![e] =
                        IF @ = i[e] THEN -1
                        ELSE IF @ = Len(active[e]) - 1 THEN i[e] ELSE @]
    /\ pc' = [pc EXCEPT ![e] = "while"]
    /\ UNCHANGED <<poisson, other, equal, within_inclusive, op, distribution, rng, sampled,
                   i, attempt, first_point, results, points, kd_tree>>

\* generate(): collect() has seen None and returns the Vec
GenerateReturn(e) ==
    /\ pc[e] = "idle"
    /\ op[e] = "generate"
    /\ collect_done(e)
    /\ points' = [points EXCEPT ![e] = Emitted(e)]
    /\ pc' = [pc EXCEPT ![e] = "done"]
    /\ UNCHANGED <<poisson, other, equal, within_inclusive, op, distribution, rng, sampled, active,
                   i, attempt, first_point, seed_index, results, kd_tree>>

\* generate_kd_tree(): to_empty() has seen None, to_sampled() hands out sampled
KdTreeReturn(e) ==
    /\ pc[e] = "idle"
    /\ op[e] = "generate_kd_tree"
    /\ to_empty_done(e)
    /\ kd_tree' = [kd_tree EXCEPT ![e] = sampled[e]]
    /\ pc' = [pc EXCEPT ![e] = "done"]
    /\ UNCHANGED <<poisson, other, equal, within_inclusive, op, distribution, rng, sampled, active,
                   i, attempt, first_point, seed_index, results, points>>

\* The caller compares two of the Poissons it holds: lhs == rhs
Compare ==
    /\ \E c \in { <<poisson, other>>, <<other, poisson>>,
                   <<poisson, poisson>>, <<poisson, Clone(poisson)>> } :
          equal' = Some(<<c[1], c[2], PartialEq(c[1], c[2])>>)
    /\ UNCHANGED <<poisson, other, within_inclusive, pc, op, distribution, rng,
                   sampled, active, i, attempt, pull_len, candidates,
                   first_point, seed_index, results, points, kd_tree>>

\* The history of the pull in progress, kept beside the steps of next():
\* unrecorded, started by the call, one more candidate generated.
WorkSkip == UNCHANGED <<pull_len, candidates>>
WorkCall(e) ==
    /\ pull_len' = [pull_len EXCEPT ![e] = Len(active[e])]
    /\ candidates' = [candidates EXCEPT ![e] = 0]
WorkCandidate(e) ==
    /\ candidates' = [candidates EXCEPT ![e] = @ + 1]
    /\ UNCHANGED pull_len

\* next(), step by step
NextStep(e) ==
    \/ WhileExit(e) /\ WorkSkip
    \/ WhileSelect(e) /\ WorkSkip
    \/ ForReject(e) /\ WorkSkip
    \/ ForAccept(e) /\ WorkSkip
    \/ ForEnd(e) /\ WorkSkip

\* One engine, seeded or not, pulled by the holder of Poisson::iter().
Next ==
    \/ IterNew("a", "iter") /\ WorkSkip
    \/ CallNext("a") /\ WorkSkip
    \/ NextStep("a")
Spec == Init /\ [][Next]_vars

\* The same engine under a caller that keeps pulling (collect(), to_empty(),
\* a for loop): no step that is possible is put off forever.
LiveSpec == Init /\ [][Next]_vars /\ WF_vars(Next)

\* Two engines built from one seeded Poisson by iter(), generate() or
\* generate_kd_tree().
InitSeeded == Init /\ IsSome(poisson.seed)
NextTwin ==
    \E e \in Engines :
        \/ (\E o \in Ops : IterNew(e, o)) /\ WorkSkip
        \/ CallNext(e) /\ WorkSkip
        \/ NextStep(e)
        \/ GenerateReturn(e) /\ WorkSkip
        \/ KdTreeReturn(e) /\ WorkSkip
TwinSpec == InitSeeded /\ [][NextTwin]_vars

\* The engine of Spec with the work of each pull recorded.
NextWork ==
    \/ IterNew("a", "iter") /\ WorkSkip
    \/ CallNext("a") /\ WorkCall("a")
    \/ WhileExit("a") /\ WorkSkip
    \/ WhileSelect("a") /\ WorkSkip
    \/ ForReject("a") /\ WorkCandidate("a")
    \/ ForAccept("a") /\ WorkCandidate("a")
    \/ ForEnd("a") /\ WorkSkip
WorkSpec == Init /\ [][NextWork]_vars

\* A caller that holds two Poissons and compares them.
InitEq ==
    /\ poisson \in Configs
    /\ other \in Configs
    /\ within_inclusive \in BOOLEAN
    /\ InitEngines
NextEq == Compare
EqSpec == InitEq /\ [][NextEq]_vars

\* What one more builder call (or a clone) makes of a Poisson.
Variants(p) ==
    {Clone(p)}
    \cup { set_validate(p, s[1], s[2]) : s \in Scenarios }
    \cup { set_radius(p, r) : r \in Radii }
    \cup { set_seed(p, sd) : sd \in 0..MaxSeed }
    \cup { set_samples(p, n) : n \in 0..MaxSamples }

\* A caller that holds a seeded Poisson and a variant of it, and calls
\* generate() on each.
InitPair ==
    /\ poisson \in Seeded
    /\ other \in Variants(poisson)
    /\ within_inclusive \in BOOLEAN
    /\ InitEngines
NextPair ==
    \E e \in Engines :
        \/ IterNew(e, "generate") /\ WorkSkip
        \/ CallNext(e) /\ WorkSkip
        \/ NextStep(e)
        \/ GenerateReturn(e) /\ WorkSkip
PairSpec == InitPair /\ [][NextPair]_vars

\* ================================================================ claims
Last(sq) == sq[Len(sq)]
Range(sq) == { sq[k] : k \in 1..Len(sq) }
Min(x, y) == IF x <= y THEN x ELSE y

\* C1 Minimum separation: in every reachable state, any two points next() has
\* returned (two different pulls of one engine) are at squared distance at
\* least radius^2, i.e. at Euclidean distance >= radius.
C1_MinimumSeparation ==
    \A e \in Engines :
        \A k1, k2 \in 1..Len(Emitted(e)) :
            k1 < k2 =>
                Dist2(Emitted(e)[k1], Emitted(e)[k2])
                    >= distribution[e].radius * distribution[e].radius

\* C1 witness: three points returned, two of them exactly radius apart.
C1_Witness ==
    /\ Len(Emitted("a")) >= 3
    /\ \E k1, k2 \in 1..Len(Emitted("a")) :
          Dist2(Emitted("a")[k1], Emitted("a")[k2])
              = distribution["a"].radius * distribution["a"].radius

\* C2 Domain containment: every point next() has returned satisfies the
\* validate function of the Poisson the engine was built from, called with that
\* Poisson's user data; under the default function each coordinate is in
\* [0, 1), i.e. in 0..Scale-1 on the lattice.
C2_DomainContainment ==
    \A e \in Engines :
        \A p \in Range(Emitted(e)) :
            /\ ApplyValidate(poisson.validate, p, poisson.validate_user_data)
            /\ poisson.validate = "default" =>
                   \A n \in 1..2 : p[n] \in 0..(Scale - 1)

\* C2 witness: a point returned under the default predicate.
C2_Witness ==
    /\ poisson.validate = "default"
    /\ Len(Emitted("a")) >= 2

\* C3 Determinism: two engines built from the same seeded Poisson agree on
\* the result of every pull both have made, in order, and two finished
\* generate() calls returned the same Vec.
C3_Determinism ==
    \A e, f \in Engines :
        (/\ pc[e] # "none" /\ pc[f] # "none"
         /\ IsSome(distribution[e].seed)
         /\ distribution[e] = distribution[f])
        => /\ \A k \in 1..Min(Len(results[e]), Len(results[f])) :
                  results[e][k] = results[f][k]
           /\ (/\ pc[e] = "done" /\ pc[f] = "done"
               /\ op[e] = "generate" /\ op[f] = "generate")
              => points[e] = points[f]

\* C3 witness: both engines ran generate() to the end and returned two or
\* more points.
C3_Witness ==
    /\ pc["a"] = "done" /\ pc["b"] = "done"
    /\ op["a"] = "generate" /\ op["b"] = "generate"
    /\ IsSome(distribution["a"].seed)
    /\ Len(points["a"]) >= 2
    /\ Len(points["b"]) >= 2

\* The engine has reported end-of-sequence and holds an empty active list.
Exhausted(e) ==
    /\ pc[e] \in {"idle", "done"}
    /\ active[e] = <<>>
    /\ results[e] # <<>>
    /\ Last(results[e]) = None

\* C4 Termination: with radius > 0, num_samples > 0 and a validate function
\* that accepts a bounded domain (every function of Scenarios does), a caller
\* that keeps pulling eventually gets None with the active list empty.
C4_Termination ==
    (poisson.radius > 0 /\ poisson.num_samples > 0) => <>Exhausted("a")

\* C4 witness: the engine is exhausted after it returned points, under a
\* configuration with radius > 0 and num_samples > 0.
C4_Witness ==
    /\ poisson.radius > 0 /\ poisson.num_samples > 0
    /\ Exhausted("a")
    /\ Len(Emitted("a")) >= 2

\* C5 Idempotent terminal state: once next() has returned None, no step
\* returns a point again, the active list is empty after every step and the
\* spatial index is what it was.
C5_FusedTerminal ==
    [][\A e \in Engines :
          NoneCount(e) > 0 =>
              /\ active'[e] = <<>>
              /\ sampled'[e] = sampled[e]
              /\ Emitted(e)' = Emitted(e)]_vars

\* C5 witness: next() was called again after it had returned None, and
\* answered; points had been returned before.
C5_Witness ==
    /\ NoneCount("a") >= 2
    /\ Len(Emitted("a")) >= 1
    /\ pc["a"] = "idle"

\* C6 as claimed: generate() on a seeded Poisson with radius 5.0 and the
\* default validate function returns a non-empty Vec.
C6_NonEmptyAtRadiusFive ==
    \A e \in Engines :
        (/\ pc[e] = "done" /\ op[e] = "generate"
         /\ IsSome(distribution[e].seed)
         /\ distribution[e].radius = RadiusFive
         /\ distribution[e].validate = "default")
        => points[e] # <<>>

\* The lattice around every domain of Scenarios.
Universe == (-1..(Scale + RadiusMid)) \X (-1..(Scale + RadiusMid))

\* The scenarios whose radius is larger than the diameter of the accepted
\* domain: any two accepted points are closer than radius.
SmallDomains ==
    { s \in Scenarios :
        \A p, q \in Universe :
            (ApplyValidate(s[1], p, s[2]) /\ ApplyValidate(s[1], q, s[2]))
                => Dist2(p, q) < s[3] * s[3] }

\* C7: when the radius is larger than the diameter of the accepted domain
\* (radius 5.0 on [0,1)^2 among others), the engine returns at most one point.
C7_AtMostOnePoint ==
    \A e \in Engines :
        (/\ pc[e] # "none"
         /\ <<distribution[e].validate, distribution[e].validate_user_data,
              distribution[e].radius>> \in SmallDomains)
        => Len(Emitted(e)) <= 1

\* C7 witness: such an engine is exhausted and has returned one point.
C7_Witness ==
    /\ <<distribution["a"].validate, distribution["a"].validate_user_data,
         distribution["a"].radius>> \in SmallDomains
    /\ Exhausted("a")
    /\ Len(Emitted("a")) = 1

RECURSIVE BagOfSeq(_)
BagOfSeq(sq) ==
    IF sq = <<>> THEN EmptyBag ELSE SetToBag({Head(sq)}) (+) BagOfSeq(Tail(sq))

\* C8: the spatial index holds exactly the points next() has returned, no more
\* of them than pulls have finished, and while no pull is running no step
\* changes the engine.
C8_IndexIsEmitted ==
    /\ [](\A e \in Engines :
             /\ sampled[e] = BagOfSeq(Emitted(e))
             /\ BagCardinality(sampled[e]) <= Len(results[e]))
    /\ [][\A e \in Engines :
             pc[e] = "idle" =>
                 UNCHANGED <<sampled[e], active[e], rng[e], results[e],
                             distribution[e]>>]_vars

\* C8 witness: between two pulls, three pulls done of which two returned a
\* point.
C8_Witness ==
    /\ pc["a"] = "idle"
    /\ Len(results["a"]) = 3
    /\ BagCardinality(sampled["a"]) = 2

\* C9: construction leaves the engine idle with active = [first_point], an
\* empty index and nothing returned; first_point sits in the active list where
\* seed_index says until the step that removes it, and that step changes
\* neither the index nor what has been returned.
C9_SeedPoint ==
    /\ [](\A e \in Engines :
             seed_index[e] >= 0 =>
                 /\ seed_index[e] < Len(active[e])
                 /\ active[e][seed_index[e] + 1] = first_point[e])
    /\ [][\A e \in Engines :
             /\ (pc[e] = "none" /\ pc'[e] # "none") =>
                    /\ pc'[e] = "idle"
                    /\ active'[e] = <<first_point'[e]>>
                    /\ sampled'[e] = EmptyBag
                    /\ results'[e] = <<>>
             /\ (seed_index[e] >= 0 /\ seed_index'[e] < 0) =>
                    /\ sampled'[e] = sampled[e]
                    /\ results'[e] = results[e]]_vars

\* C9 witness: first_point has been removed from the active list of an engine
\* that returned points, and other points are still active.
C9_Witness ==
    /\ pc["a"] # "none"
    /\ seed_index["a"] < 0
    /\ Len(Emitted("a")) >= 1
    /\ active["a"] # <<>>

\* C10: generate_kd_tree() returns once the engine is exhausted, and the
\* points of its tree are the points of the Vec generate() returns for the
\* same seeded Poisson.
C10_KdTreeIsGenerate ==
    \A e, f \in Engines :
        (pc[e] = "done" /\ op[e] = "generate_kd_tree") =>
            /\ Exhausted(e)
            /\ (/\ pc[f] = "done" /\ op[f] = "generate"
                /\ IsSome(distribution[e].seed)
                /\ distribution[e] = distribution[f])
               => BagToSet(kd_tree[e]) = Range(points[f])

\* C10 witness: both calls returned, with two points or more.
C10_Witness ==
    /\ pc["a"] = "done" /\ op["a"] = "generate_kd_tree"
    /\ pc["b"] = "done" /\ op["b"] = "generate"
    /\ Len(points["b"]) >= 2
    /\ BagCardinality(kd_tree["a"]) >= 2

\* C11: equality holds only between two Poissons that both have an explicit
\* seed: whenever either side of a comparison has no seed the result is false,
\* also when a Poisson is compared with itself or with its clone.
C11_EqNeedsSeeds ==
    IsSome(equal) =>
        LET c == Unwrap(equal)
        IN  (~IsSome(c[1].seed) \/ ~IsSome(c[2].seed)) => c[3] = FALSE

\* C11 witness: an unseeded Poisson was compared with itself (or its clone,
\* the same value) and found unequal.
C11_Witness ==
    /\ IsSome(equal)
    /\ ~IsSome(Unwrap(equal)[1].seed)
    /\ Unwrap(equal)[2] = Unwrap(equal)[1]
    /\ Unwrap(equal)[3] = FALSE

\* C12 as claimed: two Poissons that compare equal produce the same results:
\* the engines built from them agree on every pull both have made, and their
\* generate() calls return the same Vec.
C12_EqualSameResults ==
    PartialEq(poisson, other) =>
        /\ \A k \in 1..Min(Len(results["a"]), Len(results["b"])) :
               results["a"][k] = results["b"][k]
        /\ (pc["a"] = "done" /\ pc["b"] = "done") => points["a"] = points["b"]

\* C13 as claimed: no engine is ever constructed from a Poisson with
\* radius <= 0 or num_samples = 0.
C13_NoDegenerateEngine ==
    \A e \in Engines :
        pc[e] # "none" =>
            /\ distribution[e].radius > 0
            /\ distribution[e].num_samples > 0

\* C14 as claimed: no point next() has returned lies closer than radius to
\* the first_point of Iter::new.
C14_SeedVoid ==
    \A e \in Engines :
        \A p \in Range(Emitted(e)) :
            Dist2(p, first_point[e])
                >= distribution[e].radius * distribution[e].radius

\* C15: the step in which next() returns Some(p) is one step of the for loop:
\* in it p is inserted into the spatial index and pushed at the end of the
\* active list, the active point p was generated around (at a distance in
\* [radius, 2 * radius)) stays where it was, nothing else of the list changes,
\* and the list is not empty when the pull returns.
C15_AcceptOneStep ==
    [][\A e \in Engines :
          (Len(results'[e]) > Len(results[e]) /\ IsSome(Last(results'[e]))) =>
              LET p == Unwrap(Last(results'[e]))
                  parent == active[e][i[e] + 1]
                  r2 == distribution[e].radius * distribution[e].radius
              IN  /\ pc[e] = "for" /\ pc'[e] = "idle"
                  /\ results'[e] = Append(results[e], Some(p))
                  /\ sampled'[e] = sampled[e] (+) SetToBag({p})
                  /\ active'[e] = Append(active[e], p)
                  /\ active'[e][i[e] + 1] = parent
                  /\ Dist2(p, parent) >= r2 /\ Dist2(p, parent) < 4 * r2
                  /\ active'[e] # <<>>]_vars

\* C15 witness: a pull has just returned a point generated around an active
\* point other than first_point, and the point is last in the active list.
C15_Witness ==
    /\ pc["a"] = "idle"
    /\ results["a"] # <<>>
    /\ IsSome(Last(results["a"]))
    /\ Last(active["a"]) = Unwrap(Last(results["a"]))
    /\ Len(active["a"]) >= 3
    /\ i["a"] # seed_index["a"]

\* C16: a step shortens the active list exactly when the for loop has
\* generated num_samples candidates around active[i] since i was selected and
\* rejected them all (each rejection counts one attempt and leaves i, the list
\* and the index alone; a selection starts the count at 0).  The step removes
\* the one entry active[i], changes neither the index nor what has been
\* returned, and goes back to the while loop, which reports None only when
\* the list is empty and selects again otherwise.
C16_RemovalAfterAttempts ==
    [][\A e \in Engines :
          LET moved == <<pc[e], attempt[e], active[e]>>' # <<pc[e], attempt[e], active[e]>>
              ns == distribution[e].num_samples
          IN  /\ Len(active'[e]) < Len(active[e]) =>
                     /\ pc[e] = "for" /\ attempt[e] = ns
                     /\ BagOfSeq(active'[e]) (+) SetToBag({active[e][i[e] + 1]})
                            = BagOfSeq(active[e])
                     /\ sampled'[e] = sampled[e]
                     /\ results'[e] = results[e]
                     /\ pc'[e] = "while"
              /\ (pc[e] = "for" /\ attempt[e] >= ns /\ moved) =>
                     Len(active'[e]) = Len(active[e]) - 1
              /\ (pc[e] = "for" /\ pc'[e] = "for" /\ moved) =>
                     /\ attempt'[e] = attempt[e] + 1 /\ attempt'[e] <= ns
                     /\ i'[e] = i[e]
                     /\ active'[e] = active[e]
                     /\ sampled'[e] = sampled[e]
              /\ (pc[e] = "while" /\ pc'[e] = "for") => attempt'[e] = 0
              /\ (pc[e] = "while" /\ active[e] # <<>> /\ moved) =>
                     /\ pc'[e] = "for"
                     /\ results'[e] = results[e]
              /\ (Len(results'[e]) > Len(results[e]) /\ Last(results'[e]) = None) =>
                     active[e] = <<>>]_vars

\* C16 witness: after two rejected candidates an emitted point has been
\* removed, first_point and others are still active, and the pull is back at
\* the while loop.
C16_Witness ==
    /\ pc["a"] = "while"
    /\ distribution["a"].num_samples >= 2
    /\ attempt["a"] = distribution["a"].num_samples
    /\ seed_index["a"] >= 0
    /\ Len(active["a"]) >= 2
    /\ Len(active["a"]) <= Len(Emitted("a"))
    /\ Range(active["a"]) \subseteq (Range(Emitted("a")) \cup {first_point["a"]})

\* C17: a call of next() made with k points in the active list generates at
\* most num_samples * k candidates, whether it is still running or has
\* returned a point or None; while it runs the list only shrinks, and the
\* candidates generated so far are those of the entries already removed
\* (num_samples each) and of the current selection.
C17_BoundedWork ==
    \A e \in Engines :
        LET ns == distribution[e].num_samples
        IN  /\ candidates[e] <= ns * pull_len[e]
            /\ pc[e] \in {"while", "for"} =>
                   /\ Len(active[e]) <= pull_len[e]
                   /\ candidates[e] <= ns * (pull_len[e] - Len(active[e]) + 1)
                   /\ pc[e] = "while" =>
                          candidates[e] = ns * (pull_len[e] - Len(active[e]))

\* C17 witness: a pull that started with two or more active points removed
\* them all and returned None after num_samples candidates around each.
C17_Witness ==
    /\ pc["a"] = "idle"
    /\ results["a"] # <<>>
    /\ Last(results["a"]) = None
    /\ pull_len["a"] >= 2
    /\ distribution["a"].num_samples >= 1
    /\ candidates["a"] = distribution["a"].num_samples * pull_len["a"]

\* The validate function of d rejects every point.
RejectsAll(d) ==
    \A p \in Universe : ~ApplyValidate(d.validate, p, d.validate_user_data)

\* C18: under a validate function that rejects every point no point is ever
\* returned and the spatial index stays empty; the first call of next()
\* generates exactly num_samples candidates, all around first_point, removes
\* first_point and returns None.
C18_RejectAll ==
    \A e \in Engines :
        (pc[e] # "none" /\ RejectsAll(distribution[e])) =>
            /\ Emitted(e) = <<>>
            /\ sampled[e] = EmptyBag
            /\ Range(active[e]) \subseteq {first_point[e]}
            /\ (pc[e] = "idle" /\ Len(results[e]) >= 1) =>
                   /\ results[e][1] = None
                   /\ active[e] = <<>>
            /\ (pc[e] = "idle" /\ Len(results[e]) = 1) =>
                   /\ pull_len[e] = 1
                   /\ candidates[e] = distribution[e].num_samples

\* C18 witness: the first pull under such a function has returned None after
\* two or more candidates.
C18_Witness ==
    /\ RejectsAll(distribution["a"])
    /\ pc["a"] = "idle"
    /\ results["a"] = <<None>>
    /\ candidates["a"] >= 2

\* C19: with num_samples = 0 next() generates no candidate: the generator
\* makes the draws of Iter::new and one gen_range and no more, the first call
\* removes first_point and returns None, no point is ever returned, and
\* generate() returns an empty Vec, whatever the seed and the radius.
C19_ZeroSamples ==
    \A e \in Engines :
        (pc[e] # "none" /\ distribution[e].num_samples = 0) =>
            LET s0 == SeedRng(distribution[e].seed)
            IN  /\ Emitted(e) = <<>>
                /\ sampled[e] = EmptyBag
                /\ attempt[e] = 0
                /\ rng[e] \in {RngAfter(s0, 2), RngAfter(s0, 3)}
                /\ results[e] # <<>> =>
                       /\ results[e][1] = None
                       /\ active[e] = <<>>
                       /\ seed_index[e] < 0
                       /\ rng[e] = RngAfter(s0, 3)
                /\ (pc[e] = "done" /\ op[e] = "generate") => points[e] = <<>>

\* C19 witness: generate() has returned for num_samples = 0 on a domain where
\* a positive num_samples yields points.
C19_Witness ==
    /\ pc["a"] = "done" /\ op["a"] = "generate"
    /\ distribution["a"].num_samples = 0
    /\ distribution["a"].validate = "default"
    /\ distribution["a"].radius = RadiusHalf
    /\ points["a"] = <<>>
    /\ results["a"] = <<None>>

\* The positions of the active list other than first_point's.
Spawned(e) == { k \in 1..Len(active[e]) : k # seed_index[e] + 1 }

\* C20: every entry of the active list is first_point, at the one position
\* seed_index records, or a point next() has returned that is in the spatial
\* index; no returned point is in the list twice, so the list has at most one
\* entry more than points were returned, and no more than that once
\* first_point is gone, which never comes back.
C20_ActiveEntries ==
    /\ [](\A e \in Engines :
             /\ \A k \in Spawned(e) :
                    /\ active[e][k] \in Range(Emitted(e))
                    /\ BagIn(active[e][k], sampled[e])
             /\ \A k1, k2 \in Spawned(e) :
                    k1 # k2 => active[e][k1] # active[e][k2]
             /\ seed_index[e] >= 0 =>
                    /\ seed_index[e] < Len(active[e])
                    /\ active[e][seed_index[e] + 1] = first_point[e]
             /\ Len(active[e]) <= Len(Emitted(e)) + 1
             /\ seed_index[e] < 0 => Len(active[e]) <= Len(Emitted(e)))
    /\ [][\A e \in Engines :
             (pc[e] # "none" /\ seed_index[e] < 0) => seed_index'[e] < 0]_vars

\* C20 witness: first_point and two returned points are active while another
\* returned point has already been removed.
C20_Witness ==
    /\ seed_index["a"] >= 0
    /\ Len(active["a"]) >= 3
    /\ Len(Emitted("a")) >= Len(active["a"])

====
